---- MODULE Spec2Model ----
(***************************************************************************)
(* GenVR MCP server: the tool handler, the completion poller and the       *)
(* invocation router, as implemented by the two entry points of the        *)
(* repository:                                                             *)
(*   "worker" : src/src/index.ts      (Cloudflare Worker, McpAgent)        *)
(*   "stdio"  : src/unnamed/part_000  (standalone stdio server, l.37-392)  *)
(*                                                                         *)
(* Strings are sequences of tokens.  A token is either the separator "_"   *)
(* or a chunk of characters that holds no separator, so that "imagegen"    *)
(* is <<"image", "gen">> and the test  category === "image"  is            *)
(* category = <<"image">>.  No token is a concatenation of other tokens.   *)
(*                                                                         *)
(* JavaScript values are records [t, v, f]: t is the type tag, v the       *)
(* token string of a primitive, f the key -> value map of an object.       *)
(***************************************************************************)
EXTENDS Integers, Sequences, FiniteSets, TLC

VARIABLES impl, name, args, inv, sent, result, routed, entry,
          cachedSchema, inputSchema,
          availableModels, toolsCache, listing, builds,
          current, parked

\* The schema of one tool: the cache entry and its translation.
schemaVars == <<cachedSchema, inputSchema>>

\* The tool table of the stdio server and the requests that list it.
registryVars == <<availableModels, toolsCache, listing, builds>>

\* The invocation that is running and the invocations that wait at an
\* await.
pairVars == <<current, parked>>

vars == <<impl, name, args, inv, sent, result, routed, entry,
          schemaVars, registryVars, pairVars>>

(***************************************************************************)
(* JavaScript values                                                       *)
(***************************************************************************)
EmptyMap == [k \in {} |-> 0]

Undef == [t |-> "undefined", v |-> <<>>, f |-> EmptyMap]

Null == [t |-> "null", v |-> <<>>, f |-> EmptyMap]

Str(s) == [t |-> "string", v |-> s, f |-> EmptyMap]

Num(s) == [t |-> "number", v |-> s, f |-> EmptyMap]

Obj(m) == [t |-> "object", v |-> <<>>, f |-> m]

\* JavaScript truthiness: undefined, null, "" and 0 are falsy.
Truthy(x) ==
    CASE x.t = "undefined" -> FALSE
      [] x.t = "null" -> FALSE
      [] x.t = "string" -> x.v # <<>>
      [] x.t = "number" -> x.v # <<"0">>
      [] OTHER -> TRUE

\* typeof x === 'object'  (true of null as well)
TypeofObject(x) == x.t \in {"object", "null"}

\* typeof x === 'string'
TypeofString(x) == x.t = "string"

\* a || b
OrElse(a, b) == IF Truthy(a) THEN a ELSE b

\* o.k  on an object map (undefined when the key is absent)
Get(m, k) == IF k \in DOMAIN m THEN m[k] ELSE Undef

\* x?.k : undefined when x is undefined or null, the property otherwise
OptGet(x, k) == IF x.t = "object" THEN Get(x.f, k) ELSE Undef

\* { ...x } : the own properties of an object; nothing for undefined,
\* null and numbers.
Spread(x) == IF x.t = "object" THEN x.f ELSE EmptyMap

\* { ...a, ...b } : the keys of b win
Merge(a, b) ==
    [k \in (DOMAIN a) \cup (DOMAIN b) |-> IF k \in DOMAIN b THEN b[k] ELSE a[k]]

\* delete o.k
Delete(m, k) == [x \in (DOMAIN m) \ {k} |-> m[x]]

(***************************************************************************)
(* Strings                                                                 *)
(***************************************************************************)
Sep == "_"

Prefix == <<"generate", Sep>>

StartsWith(s, p) == Len(s) >= Len(p) /\ SubSeq(s, 1, Len(p)) = p

\* The first index at which p occurs in s, 0 when it does not occur.
IndexOf(s, p) ==
    LET hits == {i \in 1..(Len(s) - Len(p) + 1) : SubSeq(s, i, i + Len(p) - 1) = p}
    IN IF hits = {} THEN 0 ELSE CHOOSE i \in hits : \A j \in hits : i <= j

\* s.replace(p, "") : removes the first occurrence of p
RemoveFirst(s, p) ==
    LET i == IndexOf(s, p)
    IN IF i = 0 THEN s ELSE SubSeq(s, 1, i - 1) \o SubSeq(s, i + Len(p), Len(s))

\* s.split("_") : the sequence of the segments between separators
RECURSIVE Split(_)
Split(s) ==
    LET i == IndexOf(s, <<Sep>>)
    IN IF i = 0 THEN <<s>>
       ELSE <<SubSeq(s, 1, i - 1)>> \o Split(SubSeq(s, i + 1, Len(s)))

\* parts.join("_")
RECURSIVE Join(_)
Join(parts) ==
    IF Len(parts) = 0 THEN <<>>
    ELSE IF Len(parts) = 1 THEN parts[1]
    ELSE parts[1] \o <<Sep>> \o Join(Tail(parts))

(***************************************************************************)
(* Tool naming (registry) and name parsing (router)                        *)
(***************************************************************************)
\* `generate_${model.category}_${model.subcategory}`
ToolName(category, subcategory) == Prefix \o category \o <<Sep>> \o subcategory

\* Mutant of ExpandCategory: the short names are matched as prefixes.
ExpandCategoryByPrefix(c) ==
    IF Len(c) >= 1 /\ c[1] \in {"image", "video", "audio"} THEN c \o <<"gen">> ELSE c

\* if (category === "image") category = "imagegen"; ... video, audio
ExpandCategory(c) ==
    IF c = <<"image">> THEN <<"image", "gen">>
    ELSE IF c = <<"video">> THEN <<"video", "gen">>
    ELSE IF c = <<"audio">> THEN <<"audio", "gen">>
    ELSE c

\* parts = name.replace("generate_", "").split("_");
\* category = parts[0]; subcategory = parts.slice(1).join("_"); expansion
ParseName(n) ==
    LET parts == Split(RemoveFirst(n, Prefix))
    IN [category |-> ExpandCategory(parts[1]),
        subcategory |-> Join(Tail(parts))]

(***************************************************************************)
(* Invocation router of the stdio server (CallToolRequestSchema handler,   *)
(* up to the call of /generate)                                            *)
(***************************************************************************)
\* toolArgs.parameters && typeof toolArgs.parameters === 'object'
HasNestedParameters(m) ==
    Truthy(Get(m, "parameters")) /\ TypeofObject(Get(m, "parameters"))

\* parameters = nested ? { ...toolArgs.parameters } : { ...toolArgs }
FirstUnwrap(toolArgs) ==
    IF HasNestedParameters(toolArgs) THEN Spread(Get(toolArgs, "parameters"))
    ELSE toolArgs

\* parameters.model && typeof parameters.model === 'string' && !subcategory
ModelOverrides(parameters, subcategory) ==
    /\ Truthy(Get(parameters, "model"))
    /\ TypeofString(Get(parameters, "model"))
    /\ ~Truthy(Str(subcategory))

\* [subcategory, parameters] after the 'model' override
ApplyModel(parameters, subcategory) ==
    IF ModelOverrides(parameters, subcategory)
    THEN [subcategory |-> Get(parameters, "model").v,
          parameters |-> Delete(parameters, "model")]
    ELSE [subcategory |-> subcategory, parameters |-> parameters]

\* delete parameters.category_genvr; delete parameters.subcategory_genvr
StripReserved(parameters) ==
    Delete(Delete(parameters, "category_genvr"), "subcategory_genvr")

\* Mutant of SecondUnwrap: a set that is still nested is forwarded as is.
SecondUnwrapSkipped(parameters) == parameters

\* flatParams = { ...parameters }; flattened once more when it still holds
\* an object under 'parameters'
SecondUnwrap(parameters) ==
    IF HasNestedParameters(parameters) THEN Spread(Get(parameters, "parameters"))
    ELSE parameters

\* requestBody = { category, subcategory, ...flatParams }
RequestBody(category, subcategory, flatParams) ==
    Merge([k \in {"category", "subcategory"} |->
              IF k = "category" THEN Str(category) ELSE Str(subcategory)],
          flatParams)

\* Mutant of NoArguments: the typeof test is left out.
NoArgumentsFalsyOnly(a) == ~Truthy(a)

\* !args || typeof args !== 'object'
NoArguments(a) == ~Truthy(a) \/ ~TypeofObject(a)

UnknownToolMsg == <<"Unknown tool: ">>

NoArgumentsMsg == <<"No arguments provided">>

\* Mutant of KnownTool: the name must also be that of a model of the
\* catalog.
KnownToolInCatalog(n) ==
    /\ StartsWith(n, Prefix)
    /\ \E i \in DOMAIN availableModels :
           /\ ParseName(n).category = availableModels[i].category
           /\ ParseName(n).subcategory = availableModels[i].subcategory

\* name.startsWith("generate_")
KnownTool(n) == StartsWith(n, Prefix)

\* The router: the error it throws (<<>> when none), and otherwise the
\* category, the subcategory, the forwarded parameters and the body.
Route(n, a) ==
    IF NoArguments(a)
    THEN [error |-> NoArgumentsMsg, category |-> <<>>, subcategory |-> <<>>,
          parameters |-> EmptyMap, body |-> EmptyMap]
    ELSE IF ~KnownTool(n)
    THEN [error |-> UnknownToolMsg \o n, category |-> <<>>, subcategory |-> <<>>,
          parameters |-> EmptyMap, body |-> EmptyMap]
    ELSE LET parsed == ParseName(n)
             m == ApplyModel(FirstUnwrap(a.f), parsed.subcategory)
             flatParams == SecondUnwrap(StripReserved(m.parameters))
         IN [error |-> <<>>,
             category |-> parsed.category,
             subcategory |-> m.subcategory,
             parameters |-> flatParams,
             body |-> RequestBody(parsed.category, m.subcategory, flatParams)]

(***************************************************************************)
(* Inputs: argument values and tool names                                  *)
(***************************************************************************)
\* How many times an argument object may be wrapped in 'parameters'.
MaxNest == 2

\* The object with the given fields, a field of value undefined being absent.
MkObj(r) == Obj([k \in {x \in DOMAIN r : r[x] # Undef} |-> r[k]])

ModelValues == {Undef, Str(<<"sdxl">>)}

ObjectsOver(inner) ==
    {MkObj([parameters |-> p, model |-> m, category_genvr |-> c,
            subcategory_genvr |-> s, a |-> x]) :
        p \in inner, m \in ModelValues, c \in {Undef, Str(<<"x">>)},
        s \in {Undef, Str(<<"y">>)}, x \in {Undef, Num(<<"1">>)}}

NonObjects == {Undef, Str(<<"p">>)}

RECURSIVE Nested(_)
Nested(n) ==
    IF n = 0 THEN ObjectsOver(NonObjects)
    ELSE ObjectsOver(NonObjects \cup Nested(n - 1))

\* Every argument value a client may send: absent, a non-object, or an
\* object wrapped up to MaxNest times.
RouterArgs == NonObjects \cup Nested(MaxNest)

RouterNames ==
    {Prefix,
     Prefix \o <<"image", "gen">>,
     Prefix \o <<"image", "gen", Sep, "x">>,
     Prefix \o <<"image", Sep, "x", Sep, "y">>,
     <<"x">>}

NoRoute ==
    [error |-> <<>>, category |-> <<>>, subcategory |-> <<>>,
     parameters |-> EmptyMap, body |-> EmptyMap]

NoEntry == [category |-> <<>>, subcategory |-> <<>>]

IdleInv == [pc |-> "unused"]

NoResult == [kind |-> "none", isError |-> FALSE, text |-> <<>>, structured |-> Undef]

\* A cache without an entry for the model: schemasCache[schemaKey] is
\* undefined.
NoSchema == [shape |-> "none", properties |-> EmptyMap, hasRequired |-> FALSE, required |-> {}]

NoInputSchema == [properties |-> EmptyMap, required |-> {}]

NoSchemaState ==
    /\ cachedSchema = NoSchema
    /\ inputSchema = NoInputSchema

NoRegistryState ==
    /\ availableModels = <<>>
    /\ toolsCache = <<>>
    /\ listing = <<>>
    /\ builds = <<>>

\* One invocation only.
NoPairState ==
    /\ current = "A"
    /\ parked = <<>>

(***************************************************************************)
(* SpecRouter: one request is received and routed                          *)
(***************************************************************************)
InitRouter ==
    /\ impl = "stdio"
    /\ name \in RouterNames
    /\ args \in RouterArgs
    /\ inv = IdleInv
    /\ sent = {}
    /\ result = NoResult
    /\ routed = NoRoute
    /\ entry = NoEntry
    /\ NoSchemaState
    /\ NoRegistryState
    /\ NoPairState

RouteRequest ==
    /\ inv.pc = "unused"
    /\ inv' = [pc |-> "routed"]
    /\ routed' = Route(name, args)
    /\ UNCHANGED <<impl, name, args, sent, result, entry, schemaVars, registryVars, pairVars>>

NextRouter == RouteRequest

SpecRouter == InitRouter /\ [][NextRouter]_vars

(***************************************************************************)
(* SpecNaming: the registry names a catalog entry, the router parses the   *)
(* name back                                                               *)
(***************************************************************************)
\* The longest category and subcategory of a catalog entry, in tokens.
MaxCatLen == 3

MaxSubLen == 2

Alphabet == {Sep, "image", "video", "audio", "gen", "x"}

\* Identifiers: non-empty strings that neither start nor end with the
\* separator.
Identifiers(n) ==
    {s \in UNION {[1..k -> Alphabet] : k \in 1..n} : s[1] # Sep /\ s[Len(s)] # Sep}

Catalog == [category : Identifiers(MaxCatLen), subcategory : Identifiers(MaxSubLen)]

InitNaming ==
    /\ impl = "stdio"
    /\ name = <<>>
    /\ args = Undef
    /\ inv = IdleInv
    /\ sent = {}
    /\ result = NoResult
    /\ routed = NoRoute
    /\ entry \in Catalog
    /\ NoSchemaState
    /\ NoRegistryState
    /\ NoPairState

\* generateTools: tools.push({ name: `generate_${category}_${subcategory}` })
BuildTool ==
    /\ inv.pc = "unused"
    /\ inv' = [pc |-> "listed"]
    /\ name' = ToolName(entry.category, entry.subcategory)
    /\ UNCHANGED <<impl, args, sent, result, routed, entry, schemaVars, registryVars, pairVars>>

\* the CallTool handler parses the name of a listed tool
ParseTool ==
    /\ inv.pc = "listed"
    /\ inv' = [pc |-> "parsed"]
    /\ routed' = [NoRoute EXCEPT !.category = ParseName(name).category,
                                 !.subcategory = ParseName(name).subcategory]
    /\ UNCHANGED <<impl, name, args, sent, result, entry, schemaVars, registryVars, pairVars>>

NextNaming == BuildTool \/ ParseTool

SpecNaming == InitNaming /\ [][NextNaming]_vars

(***************************************************************************)
(* Remote job client                                                       *)
(***************************************************************************)
\* What the remote system (or the network) answers to one request: ok is
\* false for a network error, a non-2xx status or an unreadable body,
\* otherwise json is the parsed body.
Response(ok, json) == [ok |-> ok, json |-> json]

ApiErrorMsg == <<"GenVR API error: ">>

\* makeGenVRRequest (worker): every failure is caught, logged and turned
\* into null.  callGenVRAPI (stdio): a non-ok response throws.
\* The completion of the call: threw, the value returned, the message.
Request(im, resp) ==
    IF resp.ok THEN [threw |-> FALSE, value |-> resp.json, message |-> <<>>]
    ELSE IF im = "worker" THEN [threw |-> FALSE, value |-> Null, message |-> <<>>]
    ELSE [threw |-> TRUE, value |-> Undef, message |-> ApiErrorMsg]

\* JSON.stringify({ ...body, uid }) : a key whose value is undefined is
\* left out of the serialized body.
WireBody(body, uid) ==
    LET m == Merge(body, [k \in {"uid"} |-> uid])
    IN [k \in {x \in DOMAIN m : m[x].t # "undefined"} |-> m[k]]

\* `${x}` : the string a template literal holds for a value
Template(x) ==
    CASE x.t = "undefined" -> <<"undefined">>
      [] x.t = "null" -> <<"null">>
      [] x.t = "object" -> <<"[object Object]">>
      [] OTHER -> x.v

\* One request as it leaves the process.
Wire(endpoint, body, uid, token) ==
    [endpoint |-> endpoint, body |-> WireBody(body, uid),
     auth |-> <<"Bearer ">> \o Template(token)]

\* Mutant of PollBody: the task id is left out.
PollBodyWithoutId(taskId, category, subcategory) ==
    [k \in {"category", "subcategory"} |->
        IF k = "category" THEN Str(category) ELSE Str(subcategory)]

\* { id: taskId, category, subcategory }
PollBody(taskId, category, subcategory) ==
    [k \in {"id", "category", "subcategory"} |->
        IF k = "id" THEN taskId
        ELSE IF k = "category" THEN Str(category) ELSE Str(subcategory)]

\* process.env.GENVR_USER_ID, process.env.GENVR_ACCESS_TOKEN (stdio)
EnvUserId == Str(<<"env-uid">>)

EnvAccessToken == Str(<<"env-token">>)

(***************************************************************************)
(* Completion poller                                                       *)
(***************************************************************************)
\* maxAttempts = 60
MaxAttempts == 60

BaseDelay == 2000

MaxDelay == 10000

\* 1000 * 1.5^i, rounded down and kept below 2^31: beyond MaxDelay the
\* exact value no longer matters to Math.min.
\* (The recursive call is bound once, as the element of a set, so that
\* it is evaluated once.)
RECURSIVE Pow15(_)
Pow15(i) ==
    IF i = 0 THEN 1000
    ELSE CHOOSE q \in {IF p >= MaxDelay THEN p ELSE (p * 3) \div 2 :
                           p \in {Pow15(i - 1)}} : TRUE

\* Mutant of Delay: every sleep lasts the base delay.
DelayConstant(i) == BaseDelay

\* Math.min(2000 * Math.pow(1.5, i), 10000)
Delay(i) ==
    LET d == (BaseDelay * Pow15(i)) \div 1000
    IN IF d < MaxDelay THEN d ELSE MaxDelay

\* Mutant of LoopContinues: the loop has no attempt limit.
LoopContinuesAlways(i) == TRUE

\* Mutant of LoopContinues: the loop test is off by one.
LoopContinuesOffByOne(i) == i <= MaxAttempts

\* for (let i = 0; i < maxAttempts; i++)
LoopContinues(i) == i < MaxAttempts

\* statusData.data?.status || statusData.status
ResolveStatus(statusData) ==
    OrElse(OptGet(OptGet(statusData, "data"), "status"), OptGet(statusData, "status"))

\* statusData.data?.error || statusData.error
ResolveError(statusData) ==
    OrElse(OptGet(OptGet(statusData, "data"), "error"), OptGet(statusData, "error"))

\* Mutant of PollBranch: an absent status is treated as `failed`.
PollBranchAbsentFails(status) ==
    IF status = Str(<<"completed">>) THEN "fetch"
    ELSE IF status = Str(<<"failed">>) \/ status = Undef THEN "throw"
    ELSE "sleep"

\* Mutant of PollBranch: `completed` is treated as still pending.
PollBranchKeepsPolling(status) ==
    IF status = Str(<<"failed">>) THEN "throw" ELSE "sleep"

\* The branch the loop body takes on a status: fetch the response, throw
\* "Task failed", or wait and poll again.
PollBranch(status) ==
    IF status = Str(<<"completed">>) THEN "fetch"
    ELSE IF status = Str(<<"failed">>) THEN "throw"
    ELSE "sleep"

\* Mutant of TaskFailedMsg: the upstream detail is dropped.
TaskFailedMsgGeneric(error) == <<"Task failed: ", "Unknown error">>

\* `Task failed: ${error || "Unknown error"}`
TaskFailedMsg(error) ==
    <<"Task failed: ">> \o (IF Truthy(error) THEN Template(error) ELSE <<"Unknown error">>)

\* Mutant of MissingTaskId: only an absent id is missing.
MissingTaskIdAbsentOnly(taskId) == taskId = Undef

\* if (!taskId)
MissingTaskId(taskId) == ~Truthy(taskId)

TimedOutMsg == <<"Task timed out">>

StatusFailedMsg == <<"Failed to get status">>

NoTaskIdMsg == <<"No task ID returned from generate endpoint">>

TypeErrorMsg == <<"Cannot read properties of undefined">>

\* What reading statusData.data does before the status is looked at:
\* the worker throws on a falsy statusData, the stdio server reads a
\* property of it, which throws a TypeError on null.
StatusDataError(im, statusData) ==
    IF im = "worker"
    THEN (IF Truthy(statusData) THEN <<>> ELSE StatusFailedMsg)
    ELSE (IF statusData.t \in {"null", "undefined"} THEN TypeErrorMsg ELSE <<>>)

(***************************************************************************)
(* Tool results                                                            *)
(***************************************************************************)
\* JSON.stringify(result, null, 2) for null, strings, numbers and objects
\* of at most one key.
RECURSIVE JSONStringify(_)
JSONStringify(x) ==
    CASE x.t = "null" -> <<"null">>
      [] x.t = "string" -> <<"\"">> \o x.v \o <<"\"">>
      [] x.t = "number" -> x.v
      [] x.t = "object" ->
           IF DOMAIN x.f = {} THEN <<"{}">>
           ELSE LET k == CHOOSE y \in DOMAIN x.f : TRUE
                IN <<"{", "\n  ", "\"", k, "\"", ": ">> \o JSONStringify(x.f[k]) \o <<"\n", "}">>
      [] OTHER -> <<>>

\* return { content: [{ type: "text", text }], structuredContent? }
\* Only the worker adds structuredContent.
SuccessResult(im, value) ==
    [kind |-> "result", isError |-> FALSE, text |-> JSONStringify(value),
     structured |-> IF im = "worker" THEN value ELSE Undef]

ErrorPrefix(im) ==
    IF im = "worker" THEN <<"Tool execution failed: ">> ELSE <<"Error: ">>

\* An exception that leaves the handler.
Thrown(message) ==
    [kind |-> "thrown", isError |-> FALSE, text |-> message, structured |-> Undef]

\* Mutant of HandlerCatch: the exception is rethrown.
HandlerRethrows(im, message) == Thrown(message)

\* catch (error) { return { content: [...], isError: true } }
HandlerCatch(im, message) ==
    [kind |-> "result", isError |-> TRUE, text |-> ErrorPrefix(im) \o message,
     structured |-> Undef]

(***************************************************************************)
(* Spec: one tool invocation, from the call to the tool result             *)
(***************************************************************************)
\* The argument values of an invocation.
HandlerArgs ==
    {Undef,
     Str(<<"p">>),
     Obj(EmptyMap),
     MkObj([a |-> Num(<<"1">>), userId |-> Str(<<"u1">>), accessToken |-> Str(<<"k1">>)]),
     MkObj([a |-> Num(<<"1">>), category |-> Str(<<"video", "gen">>)]),
     MkObj([parameters |-> MkObj([a |-> Num(<<"1">>), model |-> Str(<<"sdxl">>)])]),
     MkObj([parameters |-> MkObj([parameters |-> MkObj([category_genvr |-> Str(<<"x">>)])])])}

\* The tool names of an invocation of the stdio server.
HandlerNames ==
    {Prefix \o <<"image", "gen">>,
     Prefix \o <<"image", Sep, "x", Sep, "y">>,
     <<"x">>}

\* stdio: the catalog main() has loaded into availableModels.
LoadedModels ==
    <<[category |-> <<"image", "gen">>, subcategory |-> <<"x", Sep, "y">>]>>

\* The catalog entries the worker registers a tool for.
WorkerCatalog ==
    {[category |-> <<"image", "gen">>, subcategory |-> <<"x">>],
     [category |-> <<"audio">>, subcategory |-> <<"x", Sep, "y">>]}

\* Bodies of the /generate answer.
SubmitBodies ==
    {Null,
     Obj(EmptyMap),
     MkObj([data |-> Obj(EmptyMap)]),
     MkObj([data |-> MkObj([id |-> Str(<<>>)])]),
     MkObj([data |-> MkObj([id |-> Str(<<"t1">>)])])}

StatusValues ==
    {Undef, Str(<<"completed">>), Str(<<"failed">>), Str(<<"pending">>)}

ErrorValues == {Undef, Str(<<>>), Str(<<"boom">>)}

\* Bodies of the /status answer: the status and the error may sit under
\* data, at the top level, at both or be absent.
StatusBodies ==
    {Null} \cup
    {MkObj([data |-> d, status |-> st, error |-> er]) :
        d \in {Undef} \cup {MkObj([status |-> ds, error |-> de]) :
                               ds \in StatusValues, de \in ErrorValues},
        st \in StatusValues, er \in ErrorValues}

\* Bodies of the /response answer.
ResultBodies ==
    {Null, Str(<<"u">>), MkObj([url |-> Str(<<"u">>)])}

Responses(bodies) == {Response(FALSE, Null)} \cup {Response(TRUE, b) : b \in bodies}

NewInv ==
    [pc |-> "idle", category |-> <<>>, subcategory |-> <<>>, body |-> EmptyMap,
     uid |-> Undef, token |-> Undef, taskId |-> Undef, i |-> 0,
     nSubmit |-> 0, nStatus |-> 0, nPending |-> 0, nSleep |-> 0, nFetch |-> 0,
     slept |-> 0, lastStatus |-> Undef, lastError |-> Undef, completedAt |-> 0,
     failedCall |-> "", outcome |-> "", payload |-> Undef, returned |-> Undef,
     message |-> <<>>, round |-> 1, prevTaskId |-> Undef, prevOutcome |-> "",
     answerId |-> Undef]

Init ==
    /\ impl = "none"
    /\ name = <<>>
    /\ args = Undef
    /\ inv = NewInv
    /\ sent = {}
    /\ result = NoResult
    /\ routed = NoRoute
    /\ entry = NoEntry
    /\ NoSchemaState
    /\ availableModels = LoadedModels
    /\ toolsCache = <<>>
    /\ listing = <<>>
    /\ builds = <<>>
    /\ NoPairState

\* stdio: the CallTool handler up to the call of /generate
CallToolStdio(n, a) ==
    /\ inv.pc = "idle"
    /\ impl' = "stdio"
    /\ name' = n
    /\ args' = a
    /\ routed' = Route(n, a)
    /\ IF routed'.error # <<>>
       THEN /\ inv' = [inv EXCEPT !.pc = "done", !.outcome = "Rejected",
                                  !.message = routed'.error]
            /\ result' = HandlerCatch("stdio", routed'.error)
       ELSE /\ inv' = [inv EXCEPT !.pc = "submit",
                                  !.category = routed'.category,
                                  !.subcategory = routed'.subcategory,
                                  !.body = routed'.body,
                                  !.uid = EnvUserId, !.token = EnvAccessToken]
            /\ result' = result
    /\ UNCHANGED <<sent, entry, schemaVars, registryVars, pairVars>>

\* worker: the handler registered for the catalog entry e, up to the call
\* of /generate: requestBody = { category, subcategory, ...args }, then
\* args.userId and args.accessToken are read.
CallToolWorker(e, a) ==
    /\ inv.pc = "idle"
    /\ impl' = "worker"
    /\ entry' = e
    /\ name' = ToolName(e.category, e.subcategory)
    /\ args' = a
    /\ IF a.t \in {"undefined", "null"}
       THEN /\ inv' = [inv EXCEPT !.pc = "done", !.outcome = "TypeError",
                                  !.message = TypeErrorMsg]
            /\ result' = HandlerCatch("worker", TypeErrorMsg)
       ELSE /\ inv' = [inv EXCEPT !.pc = "submit",
                                  !.category = e.category,
                                  !.subcategory = e.subcategory,
                                  !.body = RequestBody(e.category, e.subcategory, Spread(a)),
                                  !.uid = OptGet(a, "userId"),
                                  !.token = OptGet(a, "accessToken")]
            /\ result' = result
    /\ UNCHANGED <<sent, routed, schemaVars, registryVars, pairVars>>

\* generateData = await request("/generate", requestBody);
\* taskId = generateData?.data?.id; if (!taskId) throw ...
Submit(resp) ==
    /\ inv.pc = "submit"
    /\ sent' = sent \cup {Wire("/generate", inv.body, inv.uid, inv.token)}
    /\ LET r == Request(impl, resp)
           taskId == OptGet(OptGet(r.value, "data"), "id")
           \* the call as it was made and answered
           called == [inv EXCEPT !.nSubmit = @ + 1,
                                 !.failedCall = IF resp.ok THEN @ ELSE "submit",
                                 !.answerId =
                                     IF resp.ok
                                     THEN OptGet(OptGet(resp.json, "data"), "id")
                                     ELSE Undef]
       IN IF r.threw
          THEN /\ inv' = [called EXCEPT !.pc = "done", !.outcome = "RequestError",
                                        !.message = r.message]
               /\ result' = HandlerCatch(impl, r.message)
          ELSE IF MissingTaskId(taskId)
          THEN /\ inv' = [called EXCEPT !.pc = "done", !.outcome = "NoTaskId",
                                        !.message = NoTaskIdMsg]
               /\ result' = HandlerCatch(impl, NoTaskIdMsg)
          ELSE /\ inv' = [called EXCEPT !.pc = IF LoopContinues(0) THEN "status" ELSE "done",
                                        !.taskId = taskId, !.i = 0]
               /\ result' = result
    /\ UNCHANGED <<impl, name, args, routed, entry, schemaVars, registryVars, pairVars>>

\* One pass of the loop body of waitForCompletion up to its first await
\* after the status call: the status request, and the branch on its answer.
StatusCheck(resp) ==
    /\ inv.pc = "status"
    /\ sent' = sent \cup
          {Wire("/status", PollBody(inv.taskId, inv.category, inv.subcategory),
                inv.uid, inv.token)}
    /\ LET r == Request(impl, resp)
           status == ResolveStatus(r.value)
           called == [inv EXCEPT !.nStatus = @ + 1,
                                 !.failedCall = IF resp.ok THEN @ ELSE "status"]
           \* the answer as the poller saw it
           seen == [called EXCEPT !.lastStatus = status,
                                  !.lastError = ResolveError(r.value),
                                  !.nPending =
                                      IF status \in {Str(<<"completed">>), Str(<<"failed">>)}
                                      THEN @ ELSE @ + 1,
                                  !.completedAt =
                                      IF status = Str(<<"completed">>) /\ @ = 0
                                      THEN called.nStatus ELSE @]
       IN IF r.threw
          THEN /\ inv' = [called EXCEPT !.pc = "done", !.outcome = "RequestError",
                                        !.message = r.message]
               /\ result' = HandlerCatch(impl, r.message)
          ELSE IF StatusDataError(impl, r.value) # <<>>
          THEN /\ inv' = [called EXCEPT !.pc = "done", !.outcome = "RequestError",
                                        !.message = StatusDataError(impl, r.value)]
               /\ result' = HandlerCatch(impl, StatusDataError(impl, r.value))
          ELSE IF PollBranch(status) = "fetch"
          THEN /\ inv' = [seen EXCEPT !.pc = "fetch"]
               /\ result' = result
          ELSE IF PollBranch(status) = "throw"
          THEN /\ inv' = [seen EXCEPT !.pc = "done", !.outcome = "TaskFailed",
                                      !.message = TaskFailedMsg(ResolveError(r.value))]
               /\ result' = HandlerCatch(impl, TaskFailedMsg(ResolveError(r.value)))
          ELSE /\ inv' = [seen EXCEPT !.pc = "sleep"]
               /\ result' = result
    /\ UNCHANGED <<impl, name, args, routed, entry, schemaVars, registryVars, pairVars>>

\* Mutant of Sleep: after the last check the timeout is raised without
\* sleeping.
SleepSkippedAtLast ==
    /\ inv.pc = "sleep"
    /\ IF LoopContinues(inv.i + 1)
       THEN /\ inv' = [inv EXCEPT !.nSleep = @ + 1, !.slept = @ + Delay(inv.i),
                                  !.i = @ + 1, !.pc = "status"]
            /\ result' = result
       ELSE /\ inv' = [inv EXCEPT !.i = @ + 1, !.pc = "done",
                                  !.outcome = "TaskTimedOut", !.message = TimedOutMsg]
            /\ result' = HandlerCatch(impl, TimedOutMsg)
    /\ UNCHANGED <<impl, name, args, sent, routed, entry, schemaVars, registryVars, pairVars>>

\* await new Promise(resolve => setTimeout(resolve, delay)); i++;
\* then the loop test, and "Task timed out" when it fails.
Sleep ==
    /\ inv.pc = "sleep"
    /\ LET slept == [inv EXCEPT !.nSleep = @ + 1, !.slept = @ + Delay(inv.i),
                                !.i = @ + 1]
       IN IF LoopContinues(slept.i)
          THEN /\ inv' = [slept EXCEPT !.pc = "status"]
               /\ result' = result
          ELSE /\ inv' = [slept EXCEPT !.pc = "done", !.outcome = "TaskTimedOut",
                                       !.message = TimedOutMsg]
               /\ result' = HandlerCatch(impl, TimedOutMsg)
    /\ UNCHANGED <<impl, name, args, sent, routed, entry, schemaVars, registryVars, pairVars>>

\* responseData = await request("/response", ...); return responseData;
\* and the handler's return of the tool result.
FetchResult(resp) ==
    /\ inv.pc = "fetch"
    /\ sent' = sent \cup
          {Wire("/response", PollBody(inv.taskId, inv.category, inv.subcategory),
                inv.uid, inv.token)}
    /\ LET r == Request(impl, resp)
           called == [inv EXCEPT !.nFetch = @ + 1,
                                 !.failedCall = IF resp.ok THEN @ ELSE "fetch",
                                 !.payload = IF resp.ok THEN resp.json ELSE Undef]
       IN IF r.threw
          THEN /\ inv' = [called EXCEPT !.pc = "done", !.outcome = "RequestError",
                                        !.message = r.message]
               /\ result' = HandlerCatch(impl, r.message)
          ELSE /\ inv' = [called EXCEPT !.pc = "done", !.outcome = "Returned",
                                        !.returned = r.value]
               /\ result' = SuccessResult(impl, r.value)
    /\ UNCHANGED <<impl, name, args, routed, entry, schemaVars, registryVars, pairVars>>

Next ==
    \/ \E n \in HandlerNames, a \in HandlerArgs : CallToolStdio(n, a)
    \/ \E e \in WorkerCatalog, a \in HandlerArgs \ {Str(<<"p">>)} : CallToolWorker(e, a)
    \/ \E resp \in Responses(SubmitBodies) : Submit(resp)
    \/ \E resp \in Responses(StatusBodies) : StatusCheck(resp)
    \/ Sleep
    \/ \E resp \in Responses(ResultBodies) : FetchResult(resp)

Spec == Init /\ [][Next]_vars

(***************************************************************************)
(* Claims about the completion poller and the tool handler (Spec)          *)
(***************************************************************************)
Completed == Str(<<"completed">>)

Failed == Str(<<"failed">>)

\* C1: once a status check has answered `completed` (all earlier checks
\* having been non-terminal), the poller issues no further status check
\* and no sleep: the sleeps are those that followed the earlier,
\* non-terminal checks.  Its next and only other call is the one
\* /response call, and what the poller returns is the payload of that
\* call.  A /response call is issued in no other case.
C1_CompletedFetchesOnce ==
    /\ inv.completedAt > 0 =>
          /\ inv.lastStatus = Completed
          /\ inv.nStatus = inv.completedAt
          /\ inv.nPending = inv.completedAt - 1
          /\ inv.nSleep = inv.completedAt - 1
          /\ inv.pc \in {"fetch", "done"}
          /\ inv.nFetch = (IF inv.pc = "fetch" THEN 0 ELSE 1)
    /\ inv.nFetch > 0 => inv.completedAt > 0
    /\ inv.outcome = "Returned" =>
          /\ inv.completedAt > 0
          /\ inv.nFetch = 1
          /\ inv.failedCall = "" => inv.returned = inv.payload

\* C1 witness: [pending, pending, completed] has ended with 3 status
\* checks, 2 sleeps, 1 /response call and its payload returned.
C1_Witness ==
    /\ inv.outcome = "Returned"
    /\ inv.completedAt = 3
    /\ inv.nStatus = 3
    /\ inv.nSleep = 2
    /\ inv.nFetch = 1
    /\ inv.returned = MkObj([url |-> Str(<<"u">>)])

\* C2: the poller never issues more than 60 status checks; when 60 checks
\* have all answered a non-terminal status the poller is in its last sleep
\* or has raised "Task timed out"; and a timed out poller has issued
\* exactly 60 status checks and no /response call.
C2_TimeoutAfterSixty ==
    /\ inv.nStatus <= 60
    /\ inv.nPending = 60 =>
          /\ inv.pc \in {"sleep", "done"}
          /\ inv.pc = "done" => inv.outcome = "TaskTimedOut"
    /\ inv.outcome = "TaskTimedOut" =>
          /\ inv.pc = "done"
          /\ inv.nStatus = 60
          /\ inv.nPending = 60
          /\ inv.nFetch = 0
          /\ inv.message = <<"Task timed out">>

\* C2 witness: a poller that timed out after 60 checks.
C2_Witness ==
    /\ inv.outcome = "TaskTimedOut"
    /\ inv.nStatus = 60
    /\ inv.nFetch = 0

\* C3: when a status check answers `failed`, the poller has ended with
\* TaskFailed in that same step: no sleep, status check or /response call
\* follows (the sleeps are those after the earlier non-terminal checks,
\* none when the first check fails), and the message carries the upstream
\* detail when there is a non-empty one and "Unknown error" otherwise.
C3_FailedRaisesAtOnce ==
    /\ inv.lastStatus = Failed =>
          /\ inv.pc = "done"
          /\ inv.outcome = "TaskFailed"
          /\ inv.nFetch = 0
          /\ inv.nPending = inv.nStatus - 1
          /\ inv.nSleep = inv.nStatus - 1
          /\ inv.message =
                <<"Task failed: ">> \o
                (IF inv.lastError.t = "string" /\ inv.lastError.v # <<>>
                 THEN inv.lastError.v ELSE <<"Unknown error">>)
    /\ inv.outcome = "TaskFailed" => inv.lastStatus = Failed

\* C3 witness: the first check answered `failed` with a detail.
C3_Witness ==
    /\ inv.outcome = "TaskFailed"
    /\ inv.nStatus = 1
    /\ inv.nSleep = 0
    /\ inv.message = <<"Task failed: ", "boom">>

\* C4 (as claimed): a status or /response call that failed at the
\* transport level has ended the poller with an error.
C4_TransportFailureRaises ==
    inv.failedCall \in {"status", "fetch"} =>
        /\ inv.pc = "done"
        /\ inv.outcome = "RequestError"

\* C5 (as claimed): a finished invocation with a failed remote call, a
\* failed task or a timeout has isError = true, and a result without
\* isError carries the JSON text of the payload of a /response call that
\* succeeded.
C5_FailuresAreErrors ==
    inv.pc = "done" =>
        /\ (inv.failedCall # "" \/ inv.outcome \in {"TaskFailed", "TaskTimedOut"})
              => result.isError
        /\ ~result.isError =>
              /\ inv.nFetch = 1
              /\ inv.failedCall = ""
              /\ result.text = JSONStringify(inv.payload)

\* C6: the handler never throws: whatever the name, the arguments and the
\* remote answers, a finished invocation has produced a tool result, and
\* no state holds an exception that left the handler.
C6_HandlerNeverThrows ==
    /\ result.kind \in {"none", "result"}
    /\ inv.pc = "done" <=> result.kind = "result"
    /\ inv.outcome \in {"Rejected", "TypeError", "RequestError", "NoTaskId",
                        "TaskFailed", "TaskTimedOut"} => result.isError

\* C6 witness: each kind of exception raised inside the handler has been
\* turned into a result; here the TypeError of the worker on absent
\* arguments.
C6_Witness ==
    /\ inv.pc = "done"
    /\ inv.outcome = "TypeError"
    /\ args = Undef
    /\ result.kind = "result"
    /\ result.isError

(***************************************************************************)
(* Claims about naming and routing (SpecNaming, SpecRouter)                *)
(***************************************************************************)
\* C7 (as claimed): the name built for a catalog entry is parsed back to
\* the category and the subcategory of that entry.
C7_RoundTrip ==
    inv.pc = "parsed" =>
        /\ routed.category = entry.category
        /\ routed.subcategory = entry.subcategory

Routed == inv.pc = "routed" /\ routed.error = <<>>

\* C8 (as claimed): the body sent to /generate holds neither the key
\* category_genvr nor the key subcategory_genvr.
C8_NoReservedInBody ==
    Routed =>
        /\ "category_genvr" \notin DOMAIN routed.body
        /\ "subcategory_genvr" \notin DOMAIN routed.body

IsObject(x) == x.t = "object"

\* args.parameters and args.parameters.parameters
Level1(a) == Get(a.f, "parameters")

Level2(a) == IF IsObject(Level1(a)) THEN Get(Level1(a).f, "parameters") ELSE Undef

WrappedTwice(a) == IsObject(Level1(a)) /\ IsObject(Level2(a))

\* The parameter set the unwrapping steps select: the contents of the
\* `parameters` sub-object, of its own `parameters` sub-object when it has
\* one, and the top-level arguments when there is none.
SelectedParams(a) ==
    IF WrappedTwice(a) THEN Level2(a).f
    ELSE IF IsObject(Level1(a)) THEN Level1(a).f
    ELSE a.f

Without(m, keys) == [k \in (DOMAIN m) \ keys |-> m[k]]

\* C9 (as claimed): the forwarded parameters are exactly the selected set.
C9_ForwardedUnchanged ==
    Routed => routed.parameters = SelectedParams(args)

\* C9 (amended): the forwarded parameters are the selected set; a set
\* selected by no or one unwrapping is forwarded without the keys
\* category_genvr and subcategory_genvr and without a non-empty string
\* `model` the router took as the subcategory (the name yielding none),
\* and a set selected by two unwrappings is forwarded unchanged.
C9_ForwardedSelected ==
    Routed =>
        LET sel == SelectedParams(args)
            taken == /\ ParseName(name).subcategory = <<>>
                     /\ "model" \in DOMAIN sel
                     /\ sel["model"].t = "string"
                     /\ sel["model"].v # <<>>
            removed == {"category_genvr", "subcategory_genvr"}
                       \cup (IF taken THEN {"model"} ELSE {})
        IN IF WrappedTwice(args)
           THEN routed.parameters = sel
           ELSE routed.parameters = Without(sel, removed)

\* C9 witness: {parameters: {parameters: {a: 1}}} was forwarded as {a: 1}.
C9_Witness ==
    /\ Routed
    /\ args = MkObj([parameters |-> MkObj([parameters |-> MkObj([a |-> Num(<<"1">>)])])])
    /\ routed.parameters = [k \in {"a"} |-> Num(<<"1">>)]

\* C10 (as claimed): when the name yields no subcategory and the set
\* selected by the unwrapping steps has a `model` field, the submitted
\* subcategory is its value and the body has no `model` key; when the name
\* yields a subcategory it is the one submitted and a `model` field of the
\* selected set stays in the body.
C10_ModelOverride ==
    Routed =>
        LET sel == SelectedParams(args)
            fromName == ParseName(name).subcategory
        IN /\ (fromName = <<>> /\ "model" \in DOMAIN sel) =>
                  /\ routed.subcategory = sel["model"].v
                  /\ "model" \notin DOMAIN routed.body
           /\ fromName # <<>> =>
                  /\ routed.subcategory = fromName
                  /\ "model" \in DOMAIN sel =>
                        /\ "model" \in DOMAIN routed.body
                        /\ routed.body["model"] = sel["model"]

(***************************************************************************)
(* Claims about the router's rejections (Spec)                             *)
(***************************************************************************)
\* The arguments of the request are absent or not an object.
ArgsMissing == args.t # "object"

\* The tool name of the request starts with "generate_".
NamePrefixed == Len(name) >= 2 /\ name[1] = "generate" /\ name[2] = Sep

Rejected == inv.pc = "done" /\ inv.outcome = "Rejected"

\* C11: a stdio invocation whose arguments are absent or not an object
\* ends with "No arguments provided"; one with object arguments whose
\* name does not start with "generate_" ends with "Unknown tool: <name>".
\* Either rejection is a tool result with isError = true, and no remote
\* request was issued for it.
C11_RouterRejects ==
    (impl = "stdio" /\ inv.pc # "idle") =>
        /\ ArgsMissing => (Rejected /\ inv.message = NoArgumentsMsg)
        /\ (~ArgsMissing /\ ~NamePrefixed) =>
              (Rejected /\ inv.message = <<"Unknown tool: ">> \o name)
        /\ Rejected =>
              /\ ArgsMissing \/ ~NamePrefixed
              /\ result.kind = "result"
              /\ result.isError
              /\ result.text = <<"Error: ">> \o inv.message
              /\ sent = {}
              /\ inv.nSubmit = 0

\* C11 witness: the tool "x" called with object arguments was rejected as
\* an unknown tool.
C11_Witness ==
    /\ impl = "stdio"
    /\ Rejected
    /\ name = <<"x">>
    /\ args = Obj(EmptyMap)
    /\ result.isError
    /\ result.text = <<"Error: ", "Unknown tool: ", "x">>
    /\ sent = {}

(***************************************************************************)
(* Schema translation                                                      *)
(***************************************************************************)
\* A cache entry is [shape, properties, hasRequired, required]:
\*   shape "none"   : schemasCache[schemaKey] is undefined
\*   shape "nested" : { schema: { properties, required } }
\*   shape "flat"   : { properties, required }
\* properties maps a key to [type, display, description], each a value or
\* undefined; required is the `required` array when hasRequired.
ReservedKeys == {"category_genvr", "subcategory_genvr", "uid", "token"}

\* prop.display === 'hidden'
Hidden(prop) == prop.display = Str(<<"hidden">>)

\* The two early returns of the forEach callback of generateTools.
Exposed(key, prop) == ~Hidden(prop) /\ key \notin ReservedKeys

\* propDef = { type: prop.type || 'string',
\*             description: prop.description || `Parameter: ${key}` }
PropDef(key, prop) ==
    [type |-> OrElse(prop.type, Str(<<"string">>)),
     description |-> OrElse(prop.description, Str(<<"Parameter: ", key>>))]

\* cachedSchema.schema.required?.includes(key)
IsRequired(cached, key) == cached.hasRequired /\ key \in cached.required

\* stdio: the inputSchema generateTools builds for one model.
TranslateSchema(cached) ==
    IF cached.shape = "nested"
    THEN LET exposed == {k \in DOMAIN cached.properties :
                            Exposed(k, cached.properties[k])}
         IN [properties |-> [k \in exposed |-> PropDef(k, cached.properties[k])],
             required |-> {k \in exposed : IsRequired(cached, k)}]
    ELSE [properties |-> EmptyMap, required |-> {}]

\* The zod type the worker builds for a property type.
ZodKind(type) ==
    IF type \in {Str(<<"string">>), Str(<<"number">>), Str(<<"boolean">>), Str(<<"array">>)}
    THEN type
    ELSE Str(<<"any">>)

\* A key of a zod object may be omitted only when its type accepts
\* undefined: z.any() does, z.string(), z.number(), z.boolean() and
\* z.array() do not, and the worker never calls .optional().
ZodMandatory(kind) == kind # Str(<<"any">>)

\* { prompt: z.string(), userId: z.string(), accessToken: z.string() }
FallbackSchema ==
    [properties |->
        [k \in {"prompt", "userId", "accessToken"} |->
            [type |-> Str(<<"string">>),
             description |->
                 IF k = "prompt"
                 THEN Str(<<"The input prompt or description for the AI model">>)
                 ELSE IF k = "userId" THEN Str(<<"GenVR User ID">>)
                 ELSE Str(<<"GenVR Access Token">>)]],
     required |-> {"prompt", "userId", "accessToken"}]

\* worker: the zod shape init() builds for one model, as the contract it
\* makes: the type of each key and the keys a caller must supply.
ConvertSchema(cached) ==
    IF cached.shape = "flat"
    THEN LET props == [k \in DOMAIN cached.properties |->
                          [type |-> ZodKind(cached.properties[k].type),
                           description |->
                               OrElse(cached.properties[k].description, Str(<<>>))]]
         IN [properties |-> props,
             required |-> {k \in DOMAIN props : ZodMandatory(props[k].type)}]
    ELSE FallbackSchema

(***************************************************************************)
(* SpecSchema: the schema of one model is translated                       *)
(***************************************************************************)
MkProp(type, display, description) ==
    [type |-> type, display |-> display, description |-> description]

\* The definitions a property of the raw schema may have.
PromptProps ==
    {MkProp(t, d, x) : t \in {Undef, Str(<<"string">>), Str(<<"object">>)},
                       d \in {Undef, Str(<<"hidden">>)},
                       x \in {Undef, Str(<<"text">>)}}

SeedProps ==
    {MkProp(Str(<<"number">>), d, Undef) : d \in {Undef, Str(<<"hidden">>)}}
    \cup {MkProp(Undef, Undef, Undef)}

InternalProp == MkProp(Str(<<"string">>), Undef, Undef)

\* The properties maps: prompt and seed in every definition or absent,
\* and any of the four internal fields.
PropertyMaps ==
    {[k \in ks \cup rs |->
         IF k = "prompt" THEN p ELSE IF k = "seed" THEN q ELSE InternalProp] :
        ks \in SUBSET {"prompt", "seed"}, rs \in SUBSET ReservedKeys,
        p \in PromptProps, q \in SeedProps}

RequiredLists ==
    {{}, {"prompt"}, {"seed"}, {"prompt", "seed", "uid"}, {"ghost"}}

CacheEntries ==
    {NoSchema} \cup
    {[shape |-> sh, properties |-> ps, hasRequired |-> hr, required |-> rq] :
        sh \in {"nested", "flat"}, ps \in PropertyMaps,
        hr \in BOOLEAN, rq \in RequiredLists}

InitSchema ==
    /\ impl = "none"
    /\ name = <<>>
    /\ args = Undef
    /\ inv = [pc |-> "cached"]
    /\ sent = {}
    /\ result = NoResult
    /\ routed = NoRoute
    /\ entry = NoEntry
    /\ cachedSchema \in {c \in CacheEntries : c.hasRequired \/ c.required = {}}
    /\ inputSchema = NoInputSchema
    /\ NoRegistryState
    /\ NoPairState

\* stdio: generateTools builds the inputSchema of the model
TranslateStdio ==
    /\ inv.pc = "cached"
    /\ impl' = "stdio"
    /\ inv' = [pc |-> "translated"]
    /\ inputSchema' = TranslateSchema(cachedSchema)
    /\ UNCHANGED <<name, args, sent, result, routed, entry, cachedSchema, registryVars, pairVars>>

\* worker: init() builds the zod shape of the model
TranslateWorker ==
    /\ inv.pc = "cached"
    /\ impl' = "worker"
    /\ inv' = [pc |-> "translated"]
    /\ inputSchema' = ConvertSchema(cachedSchema)
    /\ UNCHANGED <<name, args, sent, result, routed, entry, cachedSchema, registryVars, pairVars>>

NextSchema == TranslateStdio \/ TranslateWorker

SpecSchema == InitSchema /\ [][NextSchema]_vars

(***************************************************************************)
(* Claims about the schema translation (SpecSchema)                        *)
(***************************************************************************)
\* The entry point has translated the raw schema it found in the cache.
Translated ==
    /\ inv.pc = "translated"
    /\ \/ impl = "stdio" /\ cachedSchema.shape = "nested"
       \/ impl = "worker" /\ cachedSchema.shape = "flat"

RawHidden(k) == cachedSchema.properties[k].display = Str(<<"hidden">>)

\* The raw properties the translation has to expose.
RawExposed ==
    {k \in DOMAIN cachedSchema.properties :
        ~RawHidden(k)
        /\ k \notin {"category_genvr", "subcategory_genvr", "uid", "token"}}

\* C12 (as claimed): the translated input schema has no property that is
\* hidden in the raw schema and none named category_genvr,
\* subcategory_genvr, uid or token; every other raw property is in it.
C12_NoHiddenNoReserved ==
    Translated => DOMAIN inputSchema.properties = RawExposed

\* The raw `required` list, empty when the schema has none.
RawRequired == IF cachedSchema.hasRequired THEN cachedSchema.required ELSE {}

\* C13 (as claimed): an exposed property is mandatory exactly when its
\* name is in the raw `required` list, and the mandatory names are among
\* the exposed ones.
C13_RequiredIffListed ==
    Translated =>
        /\ \A k \in DOMAIN inputSchema.properties :
               k \in inputSchema.required <=> k \in RawRequired
        /\ inputSchema.required \subseteq DOMAIN inputSchema.properties

(***************************************************************************)
(* Tool registry                                                           *)
(***************************************************************************)
Slash == "/"

\* `${model.category}/${model.subcategory}`
ModelKey(e) == e.category \o <<Slash>> \o e.subcategory

\* s.split(sep) for a one-token separator
RECURSIVE SplitOn(_, _)
SplitOn(s, sep) ==
    LET i == IndexOf(s, <<sep>>)
    IN IF i = 0 THEN <<s>>
       ELSE <<SubSeq(s, 1, i - 1)>> \o SplitOn(SubSeq(s, i + 1, Len(s)), sep)

\* const [category, subcategory] = modelKey.split('/'), as the template
\* literals of the tool name and of the schema key print them
KeyParts(modelKey) ==
    LET parts == SplitOn(modelKey, Slash)
    IN [category |-> parts[1],
        subcategory |-> IF Len(parts) >= 2 THEN parts[2] ELSE <<"undefined">>]

ModelA == [category |-> <<"image", "gen">>, subcategory |-> <<"x">>]

ModelB == [category |-> <<"audio">>, subcategory |-> <<"x", Sep, "y">>]

\* The schemas cache each entry point loads at startup, in the layout it
\* reads: one schema for imagegen/x, none for any other model.
SchemasCache(im, schemaKey) ==
    IF schemaKey = ModelKey(ModelA)
    THEN [shape |-> IF im = "stdio" THEN "nested" ELSE "flat",
          properties |->
              [k \in {"prompt", "uid"} |->
                  [type |-> Str(<<"string">>), display |-> Undef, description |-> Undef]],
          hasRequired |-> TRUE,
          required |-> {"prompt"}]
    ELSE NoSchema

\* The tool an entry point makes of one model: its name and input schema.
Tool(im, category, subcategory) ==
    LET schemaKey == category \o <<Slash>> \o subcategory
    IN [name |-> ToolName(category, subcategory),
        inputSchema |-> IF im = "stdio"
                        THEN TranslateSchema(SchemasCache(im, schemaKey))
                        ELSE ConvertSchema(SchemasCache(im, schemaKey))]

\* Mutant of GenerateTools: a model without a cached schema gets no tool.
GenerateToolsCachedOnly(models) ==
    LET cached == SelectSeq(models,
                            LAMBDA e : SchemasCache("stdio", ModelKey(e)) # NoSchema)
    IN [i \in DOMAIN cached |-> Tool("stdio", cached[i].category, cached[i].subcategory)]

\* stdio: the loop of generateTools over availableModels
GenerateTools(models) ==
    [i \in DOMAIN models |-> Tool("stdio", models[i].category, models[i].subcategory)]

\* worker: curatedModels.curatedModels.map(model => `${category}/${subcategory}`)
CuratedModelKeys(curated) == [i \in DOMAIN curated |-> ModelKey(curated[i])]

\* worker: the registration loop of init() over curatedModelKeys
RegisterTools(modelKeys) ==
    [i \in DOMAIN modelKeys |->
        LET p == KeyParts(modelKeys[i])
        IN Tool("worker", p.category, p.subcategory)]

(***************************************************************************)
(* SpecRegistry: the tool table is built and listed.  The steps of a       *)
(* ListTools request are the stretches of its handler between two awaits.  *)
(***************************************************************************)
\* The catalogs: what /get-models answers (nothing when the call fails)
\* and what curated-models.json lists.
Catalogs == {<<>>, <<ModelA>>, <<ModelB>>, <<ModelA, ModelB>>, <<ModelB, ModelA>>}

\* The ListTools requests of a session.
Requests == {"r1", "r2"}

IdleListing == [pc |-> "idle", tools |-> <<>>, response |-> <<>>, wrote |-> FALSE]

InitRegistry ==
    /\ impl = "none"
    /\ name = <<>>
    /\ args = Undef
    /\ inv = [pc |-> "start"]
    /\ sent = {}
    /\ result = NoResult
    /\ routed = NoRoute
    /\ entry = NoEntry
    /\ NoSchemaState
    /\ availableModels = <<>>
    /\ toolsCache = <<>>
    /\ listing = [r \in Requests |-> IdleListing]
    /\ builds = <<>>
    /\ NoPairState

\* stdio: main() pre-loads availableModels and connects the transport
Main(models) ==
    /\ inv.pc = "start"
    /\ impl' = "stdio"
    /\ inv' = [pc |-> "serving"]
    /\ availableModels' = models
    /\ UNCHANGED <<name, args, sent, result, routed, entry, schemaVars,
                   toolsCache, listing, builds, pairVars>>

\* worker: init() registers one tool per curated model key
InitWorker(curated) ==
    /\ inv.pc = "start"
    /\ impl' = "worker"
    /\ inv' = [pc |-> "serving"]
    /\ toolsCache' = RegisterTools(CuratedModelKeys(curated))
    /\ builds' = Append(builds, [catalog |-> curated, tools |-> toolsCache'])
    /\ UNCHANGED <<name, args, sent, result, routed, entry, schemaVars,
                   availableModels, listing, pairVars>>

\* stdio: the ListTools handler up to its await, or to its return when
\* toolsCache is not empty; generateTools runs up to its own await when
\* availableModels is empty.
ListTools(r) ==
    /\ impl = "stdio"
    /\ inv.pc = "serving"
    /\ listing[r].pc = "idle"
    /\ IF Len(toolsCache) = 0
       THEN IF Len(availableModels) = 0
            THEN /\ listing' = [listing EXCEPT ![r].pc = "fetching"]
                 /\ builds' = builds
            ELSE /\ listing' = [listing EXCEPT ![r].pc = "built",
                                               ![r].tools = GenerateTools(availableModels)]
                 /\ builds' = Append(builds, [catalog |-> availableModels,
                                              tools |-> GenerateTools(availableModels)])
       ELSE /\ listing' = [listing EXCEPT ![r].pc = "done", ![r].response = toolsCache]
            /\ builds' = builds
    /\ UNCHANGED <<impl, name, args, inv, sent, result, routed, entry, schemaVars,
                   availableModels, toolsCache, pairVars>>

\* stdio: availableModels = await fetchAvailableModels(); and the rest
\* of generateTools
FetchModels(r, models) ==
    /\ listing[r].pc = "fetching"
    /\ availableModels' = models
    /\ listing' = [listing EXCEPT ![r].pc = "built", ![r].tools = GenerateTools(models)]
    /\ builds' = Append(builds, [catalog |-> models, tools |-> GenerateTools(models)])
    /\ UNCHANGED <<impl, name, args, inv, sent, result, routed, entry, schemaVars,
                   toolsCache, pairVars>>

\* stdio: toolsCache = (awaited tools); return { tools: toolsCache };
StoreTools(r) ==
    /\ listing[r].pc = "built"
    /\ toolsCache' = listing[r].tools
    /\ listing' = [listing EXCEPT ![r].pc = "done", ![r].response = listing[r].tools,
                                  ![r].wrote = TRUE]
    /\ UNCHANGED <<impl, name, args, inv, sent, result, routed, entry, schemaVars,
                   availableModels, builds, pairVars>>

NextRegistry ==
    \/ \E models \in Catalogs : Main(models)
    \/ \E curated \in Catalogs : InitWorker(curated)
    \/ \E r \in Requests : ListTools(r)
    \/ \E r \in Requests, models \in Catalogs : FetchModels(r, models)
    \/ \E r \in Requests : StoreTools(r)

SpecRegistry == InitRegistry /\ [][NextRegistry]_vars

(***************************************************************************)
(* Claims about the tool registry (SpecRegistry)                           *)
(***************************************************************************)
\* The number of times the ListTools handler has written toolsCache.
Writes == Cardinality({r \in Requests : listing[r].wrote})

Answered == {r \in Requests : listing[r].pc = "done"}

\* C14 (as claimed): over any interleaving of ListTools requests the tool
\* table is written at most once, and all responses carry the same list.
C14_BuiltOnce ==
    /\ Writes <= 1
    /\ \A r, q \in Answered : listing[r].response = listing[q].response

Supplied(k) ==
    IF args.t = "object" /\ k \in DOMAIN args.f THEN args.f[k] ELSE Undef

SuppliesCredentials ==
    Supplied("userId").t = "string" /\ Supplied("accessToken").t = "string"

\* C15 (as claimed): every request of an invocation that was given a user
\* id and an access token carries that user id as uid and that token as
\* bearer token.
C15_OwnCredentials ==
    SuppliesCredentials =>
        \A r \in sent :
            /\ "uid" \in DOMAIN r.body
            /\ r.body["uid"] = Supplied("userId")
            /\ r.auth = <<"Bearer ">> \o Supplied("accessToken").v

(***************************************************************************)
(* SpecRetry: a tool is invoked, and invoked again once the invocation     *)
(* has ended                                                               *)
(***************************************************************************)
\* How many times the caller invokes the tool.
MaxInvocations == 2

\* Mutant of FreshInv: the new call resumes the polling of the task of
\* the previous one.
ResumedInv(old) ==
    [NewInv EXCEPT !.round = old.round + 1, !.prevTaskId = old.taskId,
                   !.prevOutcome = old.outcome, !.taskId = old.taskId,
                   !.category = old.category, !.subcategory = old.subcategory,
                   !.uid = old.uid, !.token = old.token,
                   !.pc = IF Truthy(old.taskId) THEN "status" ELSE "idle"]

\* A new call of the handler: taskId, requestBody and the loop counter
\* are locals of the call.  The task id and the outcome of the previous
\* call are remembered for the record only.
FreshInv(old) ==
    [NewInv EXCEPT !.round = old.round + 1, !.prevTaskId = old.taskId,
                   !.prevOutcome = old.outcome]

\* The arguments and the tool of the invocations.
RetryArgs ==
    MkObj([a |-> Num(<<"1">>), userId |-> Str(<<"u1">>), accessToken |-> Str(<<"k1">>)])

RetryName == Prefix \o <<"image", "gen", Sep, "x">>

\* Bodies of the /generate answer: the remote system names the task.
RetrySubmitBodies ==
    {Obj(EmptyMap),
     MkObj([data |-> MkObj([id |-> Str(<<"t1">>)])]),
     MkObj([data |-> MkObj([id |-> Str(<<"t2">>)])])}

\* Bodies of the /status answer.
RetryStatusBodies ==
    {MkObj([status |-> st]) : st \in {Str(<<"completed">>), Str(<<"failed">>),
                                       Str(<<"pending">>)}}

\* The caller invokes the tool again; sent holds the requests of the
\* current invocation.
Reinvoke ==
    /\ inv.pc = "done"
    /\ inv.round < MaxInvocations
    /\ inv' = FreshInv(inv)
    /\ sent' = {}
    /\ result' = NoResult
    /\ routed' = NoRoute
    /\ UNCHANGED <<impl, name, args, entry, schemaVars, registryVars, pairVars>>

NextRetry ==
    \/ impl \in {"none", "stdio"} /\ CallToolStdio(RetryName, RetryArgs)
    \/ impl \in {"none", "worker"} /\ CallToolWorker(ModelA, RetryArgs)
    \/ \E resp \in Responses(RetrySubmitBodies) : Submit(resp)
    \/ \E resp \in Responses(RetryStatusBodies) : StatusCheck(resp)
    \/ Sleep
    \/ \E resp \in Responses(ResultBodies) : FetchResult(resp)
    \/ Reinvoke

SpecRetry == Init /\ [][NextRetry]_vars

(***************************************************************************)
(* Claims about re-invocation (SpecRetry)                                  *)
(***************************************************************************)
\* The status and /response requests of the current invocation.
PollRequests == {r \in sent : r.endpoint # "/generate"}

\* C16: an invocation issues at most one /generate request; one that
\* ended with TaskFailed or TaskTimedOut has issued exactly one, no
\* /response request, and no status check beyond the failed one or the
\* sixtieth; and every status or /response request of an invocation,
\* a re-invocation included, names the task id its own /generate call
\* returned, not the one of the previous invocation.
C16_OneSubmitNoResume ==
    /\ inv.nSubmit <= 1
    /\ Cardinality({r \in sent : r.endpoint = "/generate"}) <= 1
    /\ inv.outcome \in {"TaskFailed", "TaskTimedOut"} =>
          /\ inv.pc = "done"
          /\ inv.nSubmit = 1
          /\ inv.nFetch = 0
          /\ inv.nSleep = inv.nPending
          /\ inv.nStatus = inv.nPending + (IF inv.outcome = "TaskFailed" THEN 1 ELSE 0)
    /\ \A r \in PollRequests :
          /\ inv.nSubmit = 1
          /\ r.body["id"] = inv.taskId
          /\ inv.taskId # inv.prevTaskId => r.body["id"] # inv.prevTaskId

\* C16 witness: the task t1 of the first invocation failed; the second
\* invocation submitted again, got t2, polled t2 twice and failed too.
C16_Witness ==
    /\ inv.round = 2
    /\ inv.prevOutcome = "TaskFailed"
    /\ inv.prevTaskId = Str(<<"t1">>)
    /\ inv.taskId = Str(<<"t2">>)
    /\ inv.nSubmit = 1
    /\ inv.nStatus = 2
    /\ inv.outcome = "TaskFailed"
    /\ \E r \in PollRequests : r.body["id"] = Str(<<"t2">>)

(***************************************************************************)
(* SpecExpand: the category expansion of the router is applied to a        *)
(* category, and again to what it gave                                     *)
(***************************************************************************)
InitExpand ==
    /\ impl = "stdio"
    /\ name = <<>>
    /\ args = Undef
    /\ inv = [pc |-> "category", n |-> 0, category |-> <<>>, previous |-> <<>>]
    /\ sent = {}
    /\ result = NoResult
    /\ routed = NoRoute
    /\ entry \in [category : Identifiers(MaxCatLen), subcategory : {<<"x">>}]
    /\ NoSchemaState
    /\ NoRegistryState
    /\ NoPairState

\* if (category === "image") category = "imagegen"; ... on the category
\* as given
Expand ==
    /\ inv.pc = "category"
    /\ inv' = [pc |-> "expanded", n |-> 1,
               category |-> ExpandCategory(entry.category),
               previous |-> entry.category]
    /\ UNCHANGED <<impl, name, args, sent, result, routed, entry, schemaVars, registryVars, pairVars>>

\* the same statements on the category they gave
ExpandAgain ==
    /\ inv.pc = "expanded"
    /\ inv.n = 1
    /\ inv' = [pc |-> "expanded", n |-> 2,
               category |-> ExpandCategory(inv.category),
               previous |-> inv.category]
    /\ UNCHANGED <<impl, name, args, sent, result, routed, entry, schemaVars, registryVars, pairVars>>

NextExpand == Expand \/ ExpandAgain

SpecExpand == InitExpand /\ [][NextExpand]_vars

(***************************************************************************)
(* Claims about the category expansion (SpecExpand)                        *)
(***************************************************************************)
\* C17: the expansion turns image, video and audio into imagegen,
\* videogen and audiogen and leaves every other category as it is; applied
\* to a category it has already expanded it changes nothing.
C17_ExpansionIdempotent ==
    /\ inv.n = 1 =>
          inv.category =
              (CASE inv.previous = <<"image">> -> <<"image", "gen">>
                 [] inv.previous = <<"video">> -> <<"video", "gen">>
                 [] inv.previous = <<"audio">> -> <<"audio", "gen">>
                 [] OTHER -> inv.previous)
    /\ inv.n = 2 => inv.category = inv.previous

\* C17 witness: image was expanded to imagegen, and imagegen to itself.
C17_Witness ==
    /\ inv.n = 2
    /\ entry.category = <<"image">>
    /\ inv.previous = <<"image", "gen">>
    /\ inv.category = <<"image", "gen">>

(***************************************************************************)
(* Claims about the catalog and the router (Spec)                          *)
(***************************************************************************)
\* The model (c, s) is in the catalog or has a tool in the tool table.
InCatalog(c, s) ==
    \/ \E i \in DOMAIN availableModels :
          availableModels[i].category = c /\ availableModels[i].subcategory = s
    \/ \E i \in DOMAIN toolsCache :
          toolsCache[i].name = <<"generate", Sep>> \o c \o <<Sep>> \o s

\* C19: a stdio invocation with object arguments and a name that starts
\* with "generate_" is not rejected when its (category, subcategory) is
\* not in the catalog: its /generate request is sent with that category
\* and subcategory, and it ends as the answers of the remote system
\* have it.
C19_NoCatalogValidation ==
    (/\ impl = "stdio"
     /\ inv.pc # "idle"
     /\ ~ArgsMissing
     /\ NamePrefixed
     /\ ~InCatalog(inv.category, inv.subcategory)) =>
        /\ inv.outcome # "Rejected"
        /\ inv.pc # "submit" =>
              /\ inv.nSubmit = 1
              /\ \E r \in sent :
                    /\ r.endpoint = "/generate"
                    /\ Supplied("category") = Undef =>
                          /\ r.body["category"] = Str(inv.category)
                          /\ r.body["subcategory"] = Str(inv.subcategory)
        /\ inv.pc = "done" =>
              inv.outcome \in {"RequestError", "NoTaskId", "TaskFailed",
                               "TaskTimedOut", "Returned"}

\* C19 witness: generate_imagegen names (imagegen, ""), which is not in
\* the catalog; the invocation was submitted and returned the result of
\* the remote system.
C19_Witness ==
    /\ impl = "stdio"
    /\ name = <<"generate", "_", "image", "gen">>
    /\ availableModels # <<>>
    /\ ~InCatalog(<<"image", "gen">>, <<>>)
    /\ inv.category = <<"image", "gen">>
    /\ inv.subcategory = <<>>
    /\ inv.outcome = "Returned"
    /\ ~result.isError
    /\ \E r \in sent : r.endpoint = "/generate" /\ r.body["subcategory"] = Str(<<>>)

(***************************************************************************)
(* Claims about the backoff of the poller (Spec)                           *)
(***************************************************************************)
\* The milliseconds slept in the first n sleeps of the schedule
\* 2000, 3000, 4500, 6750, 10000, 10000, ...
ScheduleSum(n) ==
    CASE n = 0 -> 0
      [] n = 1 -> 2000
      [] n = 2 -> 5000
      [] n = 3 -> 9500
      [] n = 4 -> 16250
      [] OTHER -> 16250 + (n - 4) * 10000

\* C20: the sleep after status check i (counted from 0) lasts 2000, 3000,
\* 4500, 6750 ms for i = 0..3 and 10000 ms from i = 4 on, so that after n
\* sleeps the poller has slept the sum of the first n of them; no sleep is
\* shorter than the one before it or longer than 10000 ms; and a poller
\* that saw pending, pending, completed has slept 5000 ms.
C20_BackoffSchedule ==
    /\ inv.slept = ScheduleSum(inv.nSleep)
    /\ Delay(inv.nSleep) <= 10000
    /\ inv.nSleep > 0 => Delay(inv.nSleep - 1) <= Delay(inv.nSleep)
    /\ (inv.completedAt = 3 /\ inv.nPending = 2) => inv.slept = 5000

\* C20 witness: the statuses were pending, pending, completed; the poller
\* slept twice, 5000 ms in all, and returned.
C20_Witness ==
    /\ inv.completedAt = 3
    /\ inv.nPending = 2
    /\ inv.nSleep = 2
    /\ inv.slept = 5000
    /\ inv.outcome = "Returned"

(***************************************************************************)
(* Claims about the statuses the poller takes as terminal (Spec)           *)
(***************************************************************************)
\* A status check has just observed a status other than completed and
\* failed.
ObservesNonTerminal ==
    inv.pc = "status" /\ inv'.nStatus = inv.nStatus + 1 /\ inv'.nPending = inv.nPending + 1

C21_Step ==
    /\ ObservesNonTerminal =>
          /\ inv'.lastStatus \notin {Completed, Failed}
          /\ inv'.pc = "sleep"
          /\ inv'.outcome = ""
          /\ inv'.nFetch = 0
          /\ sent' \ sent \subseteq {r \in sent' : r.endpoint = "/status"}
    /\ (inv.pc = "sleep" /\ inv.nStatus < 60) =>
          /\ inv'.pc = "status"
          /\ inv'.nSleep = inv.nSleep + 1
    /\ inv'.pc = "fetch" => inv'.lastStatus = Completed
    /\ (inv.outcome = "" /\ inv'.outcome = "TaskFailed") => inv'.lastStatus = Failed

\* C21: a status check that observes a status other than `completed` and
\* `failed` (an absent one included) is followed by a sleep, with no
\* /response call and no TaskFailed; the sleep is followed by the next
\* status check while fewer than 60 have been issued.  The poller fetches
\* only on `completed` and raises TaskFailed only on `failed`.
C21_OnlyTerminalEnds == [][C21_Step]_vars

\* C21 witness: two checks answered without a status; the poller slept
\* twice and is about to issue the third check.
C21_Witness ==
    /\ inv.pc = "status"
    /\ inv.lastStatus = Undef
    /\ inv.nStatus = 2
    /\ inv.nPending = 2
    /\ inv.nSleep = 2
    /\ inv.nFetch = 0

(***************************************************************************)
(* Claims about the order of the remote calls (SpecRetry)                  *)
(***************************************************************************)
ResponseRequests == {r \in sent : r.endpoint = "/response"}

\* C22: a status check is issued only when the /generate call of the
\* invocation has returned with a task id; every status and /response
\* request carries that id; and a /response request is issued only when
\* the latest status check of the invocation answered `completed`.
C22_CallOrder ==
    /\ (inv.pc \in {"status", "sleep", "fetch"} \/ inv.nStatus > 0) =>
          /\ inv.nSubmit = 1
          /\ inv.answerId \in {Str(<<"t1">>), Str(<<"t2">>)}
          /\ \E r \in sent : r.endpoint = "/generate"
    /\ \A r \in PollRequests :
          /\ "id" \in DOMAIN r.body
          /\ r.body["id"] = inv.answerId
    /\ (ResponseRequests # {} \/ inv.nFetch > 0) =>
          /\ inv.completedAt > 0
          /\ inv.completedAt = inv.nStatus
          /\ inv.lastStatus = Completed
          /\ \E r \in sent : r.endpoint = "/status"

\* C22 witness: /generate returned t2; the second status check answered
\* `completed`, and the /response request for t2 was issued.
C22_Witness ==
    /\ inv.answerId = Str(<<"t2">>)
    /\ inv.nSubmit = 1
    /\ inv.nStatus = 2
    /\ inv.completedAt = 2
    /\ inv.nFetch = 1
    /\ \E r \in ResponseRequests : r.body["id"] = Str(<<"t2">>)
    /\ \E r \in sent : r.endpoint = "/status" /\ r.body["id"] = Str(<<"t2">>)

(***************************************************************************)
(* Claims about a failed submission (Spec)                                 *)
(***************************************************************************)
\* The /generate call of the invocation has failed, or was answered
\* without a task id (none, or an empty one).
SubmitGaveNoTask ==
    /\ inv.nSubmit = 1
    /\ \/ inv.failedCall = "submit"
       \/ inv.answerId = Undef
       \/ inv.answerId = Str(<<>>)

\* C26: when the /generate call fails or is answered without a task id,
\* the invocation has ended with an isError result, and has issued no
\* status check and no /response call.
C26_NoTaskNoPolling ==
    SubmitGaveNoTask =>
        /\ inv.pc = "done"
        /\ result.kind = "result"
        /\ result.isError
        /\ inv.nStatus = 0
        /\ inv.nFetch = 0
        /\ \A r \in sent : r.endpoint = "/generate"

\* C26 witness: the worker's /generate call was answered { data: { id: "" } }
\* and the invocation ended with the missing task id error.
C26_Witness ==
    /\ impl = "worker"
    /\ inv.nSubmit = 1
    /\ inv.failedCall = ""
    /\ inv.answerId = Str(<<>>)
    /\ inv.pc = "done"
    /\ result.isError
    /\ result.text = <<"Tool execution failed: ", "No task ID returned from generate endpoint">>
    /\ inv.nStatus = 0

(***************************************************************************)
(* Claims about the sleeps of the poller (Spec)                            *)
(***************************************************************************)
\* C27: the sleeps the poller has finished or is in are as many as the
\* status checks that answered a non-terminal status; a poller that has
\* timed out has slept 60 times, the last sleep following the 60th check.
C27_SleepPerPendingCheck ==
    /\ inv.nSleep + (IF inv.pc = "sleep" THEN 1 ELSE 0) = inv.nPending
    /\ inv.outcome = "TaskTimedOut" =>
          /\ inv.nSleep = 60
          /\ inv.nPending = 60
          /\ inv.slept = 16250 + 56 * 10000

\* C27 witness: the 60th check answered a non-terminal status and the
\* poller is in its 60th sleep, the timeout not yet raised.
C27_Witness ==
    /\ inv.pc = "sleep"
    /\ inv.nStatus = 60
    /\ inv.nPending = 60
    /\ inv.nSleep = 59
    /\ inv.outcome = ""

(***************************************************************************)
(* Claims about the category and subcategory of the requests (Spec)        *)
(***************************************************************************)
\* C25 (as claimed): every request of an invocation, /generate, /status
\* and /response alike, carries the category and the subcategory the
\* router (or the registration of the tool) bound to the invocation,
\* whatever keys the arguments hold.
C25_BoundCategory ==
    \A r \in sent :
        /\ r.body["category"] = Str(inv.category)
        /\ r.body["subcategory"] = Str(inv.subcategory)

(***************************************************************************)
(* SpecLive: one tool invocation whose remote calls and sleeps all         *)
(* return.  Every await of the handler and of the poller is on a fetch or  *)
(* on a timer; the step after it is taken once the promise settles.        *)
(***************************************************************************)
\* The answers of the remote system: a task id or none, each status
\* (absent included) and each result.
LiveSubmitBodies == {Obj(EmptyMap), MkObj([data |-> MkObj([id |-> Str(<<"t1">>)])])}

LiveStatusBodies == {MkObj([status |-> st]) : st \in StatusValues}

\* The steps that follow the return of a remote call or of a sleep.
Returns ==
    \/ \E resp \in Responses(LiveSubmitBodies) : Submit(resp)
    \/ \E resp \in Responses(LiveStatusBodies) : StatusCheck(resp)
    \/ Sleep
    \/ \E resp \in Responses(ResultBodies) : FetchResult(resp)

NextLive ==
    \/ \E a \in {Undef, RetryArgs} : CallToolStdio(RetryName, a)
    \/ \E a \in {Undef, RetryArgs} : CallToolWorker(ModelA, a)
    \/ Returns

SpecLive == Init /\ [][NextLive]_vars /\ WF_vars(Returns)

(***************************************************************************)
(* Claims about termination (SpecLive)                                     *)
(***************************************************************************)
Invoked == inv.pc # "idle"

ReturnedResult == inv.pc = "done" /\ result.kind = "result"

\* C23: an invocation never issues more than one /generate call, 60
\* status checks and one /response call, and, its calls and sleeps
\* returning, it eventually returns a tool result, whatever the answers.
C23_Terminates ==
    /\ [](inv.nSubmit <= 1 /\ inv.nStatus <= 60 /\ inv.nFetch <= 1)
    /\ Invoked ~> ReturnedResult

\* C23 witness: after 60 non-terminal checks the invocation returned the
\* timeout as an isError result.
C23_Witness ==
    /\ ReturnedResult
    /\ result.isError
    /\ inv.outcome = "TaskTimedOut"
    /\ inv.nSubmit = 1
    /\ inv.nStatus = 60

(***************************************************************************)
(* SpecPair: two invocations on one server.  The handler runs between two  *)
(* awaits without interruption; at an await the event loop may go on with  *)
(* the other invocation.  impl, the catalog and the tool table are of the  *)
(* process; name, args, inv, sent, result, routed and entry are of the     *)
(* invocation that is running, those of a waiting one are in parked.       *)
(***************************************************************************)
Invocations == {"A", "B"}

\* What an invocation keeps across an await: its parameters and locals,
\* its requests so far and its result.
Context ==
    [name |-> name, args |-> args, inv |-> inv, sent |-> sent,
     result |-> result, routed |-> routed, entry |-> entry]

\* An invocation that has not been made yet.
Blank ==
    [name |-> <<>>, args |-> Undef, inv |-> NewInv, sent |-> {},
     result |-> NoResult, routed |-> NoRoute, entry |-> NoEntry]

\* Mutant of Resume: the loop counter is one variable of the module, so
\* that a resumed poller goes on with the count of the other one.
ResumeSharedCounter(saved, running) ==
    [saved EXCEPT !.inv = [@ EXCEPT !.i = running.inv.i]]

\* The continuation of an async function finds its own parameters and
\* locals (taskId, category, subcategory, the loop counter i).
Resume(saved, running) == saved

\* The remote system names the task of each /generate call.
TaskOf(k) == IF k = "A" THEN Str(<<"t1">>) ELSE Str(<<"t2">>)

PairResultBodies == {MkObj([url |-> Str(<<"u">>)])}

InitPair ==
    /\ impl = "none"
    /\ name = <<>>
    /\ args = Undef
    /\ inv = NewInv
    /\ sent = {}
    /\ result = NoResult
    /\ routed = NoRoute
    /\ entry = NoEntry
    /\ NoSchemaState
    /\ availableModels = LoadedModels
    /\ toolsCache = <<>>
    /\ listing = <<>>
    /\ builds = <<>>
    /\ current = "A"
    /\ parked = [k \in Invocations |-> Blank]

\* The event loop goes on with invocation k.
Switch(k) ==
    /\ k # current
    /\ impl # "none"
    /\ current' = k
    /\ parked' = [parked EXCEPT ![current] = Context, ![k] = Blank]
    /\ LET c == Resume(parked[k], Context)
       IN /\ name' = c.name
          /\ args' = c.args
          /\ inv' = c.inv
          /\ sent' = c.sent
          /\ result' = c.result
          /\ routed' = c.routed
          /\ entry' = c.entry
    /\ UNCHANGED <<impl, schemaVars, registryVars>>

NextPair ==
    \/ impl \in {"none", "stdio"} /\ CallToolStdio(RetryName, RetryArgs)
    \/ impl \in {"none", "worker"} /\ CallToolWorker(ModelA, RetryArgs)
    \/ \E resp \in Responses({MkObj([data |-> MkObj([id |-> TaskOf(current)])])}) :
          Submit(resp)
    \/ \E resp \in Responses(RetryStatusBodies) : StatusCheck(resp)
    \/ Sleep
    \/ \E resp \in Responses(PairResultBodies) : FetchResult(resp)
    \/ \E k \in Invocations : Switch(k)

SpecPair == InitPair /\ [][NextPair]_vars

(***************************************************************************)
(* Claims about concurrent invocations (SpecPair)                          *)
(***************************************************************************)
\* The context of invocation k, running or waiting.
ContextOf(k) == IF k = current THEN Context ELSE parked[k]

\* The invocation of context c stands where its own calls and their
\* answers have brought it.
OwnCourse(k, c) ==
    LET v == c.inv
        polls == {r \in c.sent : r.endpoint # "/generate"}
    IN /\ v.i = v.nSleep
       /\ v.nSleep + (IF v.pc = "sleep" THEN 1 ELSE 0) = v.nPending
       /\ v.nStatus \in {v.nPending, v.nPending + 1}
       /\ v.pc \in {"status", "sleep", "fetch"} =>
             /\ v.taskId = TaskOf(k)
             /\ v.answerId = TaskOf(k)
       /\ \A r \in polls : r.body["id"] = TaskOf(k)
       /\ Cardinality({r \in polls : r.endpoint = "/status"}) = (IF v.nStatus > 0 THEN 1 ELSE 0)
       /\ v.outcome = "TaskTimedOut" <=> (v.pc = "done" /\ v.nPending = 60 /\ v.nSleep = 60)
       /\ v.outcome = "TaskFailed" <=>
             (v.pc = "done" /\ v.lastStatus = Failed /\ v.failedCall = "")
       /\ v.outcome = "Returned" <=> (v.pc = "done" /\ v.nFetch = 1 /\
                                       (v.failedCall = "" \/ impl = "worker"))
       /\ v.outcome = "RequestError" =>
             (v.failedCall \in {"submit", "status", "fetch"} /\ impl = "stdio")
          \/ (v.failedCall = "status" /\ impl = "worker")
       /\ v.pc = "done" <=> c.result.kind = "result"

\* C24: in every interleaving of two invocations each one has its own
\* attempt counter (the number of its own sleeps) and its own task id,
\* sends its status and /response requests for that id, and ends as the
\* answers to its own calls have it.
C24_Independent ==
    \A k \in Invocations : OwnCourse(k, ContextOf(k))

\* C24 witness: invocation A has timed out after 60 checks of t1 while
\* invocation B, started meanwhile, is in its second check of t2, which
\* has answered `completed`.
C24_Witness ==
    /\ current = "B"
    /\ parked["A"].inv.outcome = "TaskTimedOut"
    /\ parked["A"].inv.i = 60
    /\ parked["A"].inv.taskId = Str(<<"t1">>)
    /\ inv.taskId = Str(<<"t2">>)
    /\ inv.i = 1
    /\ inv.nStatus = 2
    /\ inv.pc = "fetch"

====
